---- MODULE Spec2Model ----
(***************************************************************************)
(* Model of the three Search Console batch scripts:                        *)
(*   keyword_performance.py          ("keyword" mode, single period)       *)
(*   page_performance_comparison.py  ("comparison" mode, two periods)      *)
(*   page_indexing.py                ("inspection" mode)                   *)
(* Each script is a sequential program: a start-up step that reads and     *)
(* validates the inputs, then a loop over the targets that queries the     *)
(* service, writes one CSV row and (page_indexing.py only) sleeps.         *)
(*                                                                         *)
(* Numbers that the scripts hold as floats are exact rationals <<n, d>>    *)
(* in lowest terms with d > 0; an empty CSV field ("") is the empty tuple. *)
(* Dates are records [year, month, day]; a date string typed by the user   *)
(* is a record [fmt, year, month, day] where fmt says whether the text is  *)
(* ten characters long with dashes at positions 4 and 7.                   *)
(***************************************************************************)
EXTENDS Integers, Sequences, FiniteSets, TLC

VARIABLES
    mode,        \* which script runs: "keyword", "comparison", "inspection"
    pc,          \* position of the script
    err,         \* why the run ended early ("" while it has not)
    today,       \* date.today()
    start_s,     \* start date as typed (start_date / cur_start_s)
    end_s,       \* end date as typed (end_date / cur_end_s)
    match_type,  \* keyword mode: match type as typed
    lines,       \* the lines of the list file, as iterating over it yields them
    targets,     \* keywords / urls returned by the list loader (<<>> before)
    period,      \* comparison mode: cur/prev dates and days_inclusive
    i,           \* 1-based index of the target being processed
    resp,        \* outcome(s) of the service call(s) of the current target
    calc,        \* locals of the loop body left by the last computed row
    rows,        \* CSV rows written so far
    trace        \* observable events so far: checks, fetches, writes, sleeps

vars == <<mode, pc, err, today, start_s, end_s, match_type, lines, targets,
          period, i, resp, calc, rows, trace>>

-----------------------------------------------------------------------------
(* Bounds of the model *)

MaxTargets == 2     \* targets in the list file
MaxRows == 2        \* rows in one keyword response
SweepDays == 75     \* days swept by the date-window specification
MaxLines == 4       \* lines of the list file read by the loader specification
MaxIndex == 12      \* item indexes for which the backoff schedule is evaluated
HorizonDays == 105  \* days swept as "today" by the retention-horizon specification
MaxMonths == 26     \* months subtracted from each of those days

-----------------------------------------------------------------------------
(* Exact rational arithmetic standing for Python float arithmetic *)

Abs(n) == IF n < 0 THEN -n ELSE n

RECURSIVE GCD(_, _)
GCD(a, b) == IF b = 0 THEN a ELSE GCD(b, a % b)

Rat(n, d) ==
    LET s == IF d < 0 THEN -1 ELSE 1
        g == GCD(Abs(n), Abs(d))
    IN  IF n = 0 THEN <<0, 1>> ELSE <<(s * n) \div g, (s * d) \div g>>

Int2Rat(n) == <<n, 1>>
Zero == <<0, 1>>
Empty == <<>>

RatAdd(a, b) == Rat(a[1] * b[2] + b[1] * a[2], a[2] * b[2])
RatSub(a, b) == Rat(a[1] * b[2] - b[1] * a[2], a[2] * b[2])
RatMul(a, b) == Rat(a[1] * b[1], a[2] * b[2])
RatDiv(a, b) == Rat(a[1] * b[2], a[2] * b[1])
RatLT(a, b) == a[1] * b[2] < b[1] * a[2]
RatMin(a, b) == IF RatLT(b, a) THEN b ELSE a

RECURSIVE Pow10(_)
Pow10(k) == IF k = 0 THEN 1 ELSE 10 * Pow10(k - 1)

\* round(x, ndigits): nearest multiple of 10^-ndigits, ties to the even one
RoundScaled(x, ndigits) ==
    LET s == Pow10(ndigits)
        n == x[1] * s
        q == n \div x[2]
        r == n % x[2]
    IN  IF 2 * r < x[2] THEN q
        ELSE IF 2 * r > x[2] THEN q + 1
        ELSE IF q % 2 = 0 THEN q ELSE q + 1

Round(x, ndigits) == Rat(RoundScaled(x, ndigits), Pow10(ndigits))

\* int(round(x))
IntRound(x) == Int2Rat(RoundScaled(x, 0))

-----------------------------------------------------------------------------
(* Calendar arithmetic of datetime.date and calendar.monthrange *)

IsLeap(y) == y % 4 = 0 /\ (y % 100 # 0 \/ y % 400 = 0)

DaysInMonthTable == <<31, 28, 31, 30, 31, 30, 31, 31, 30, 31, 30, 31>>

\* calendar.monthrange(y, m)[1]
DaysInMonth(y, m) == IF m = 2 /\ IsLeap(y) THEN 29 ELSE DaysInMonthTable[m]

RECURSIVE DaysBeforeMonth(_, _)
DaysBeforeMonth(y, m) ==
    IF m = 1 THEN 0 ELSE DaysBeforeMonth(y, m - 1) + DaysInMonth(y, m - 1)

DaysBeforeYear(y) ==
    LET p == y - 1 IN p * 365 + p \div 4 - p \div 100 + p \div 400

Date(y, m, d) == [year |-> y, month |-> m, day |-> d]

\* date.toordinal()
ToOrdinal(dt) ==
    DaysBeforeYear(dt.year) + DaysBeforeMonth(dt.year, dt.month) + dt.day

RECURSIVE MonthOf(_, _, _)
MonthOf(y, m, n) ==
    IF n <= DaysInMonth(y, m) THEN Date(y, m, n)
    ELSE MonthOf(y, m + 1, n - DaysInMonth(y, m))

\* date.fromordinal(n), the 400/100/4/1-year decomposition of datetime
FromOrdinal(ord) ==
    LET n0   == ord - 1
        n400 == n0 \div 146097
        r400 == n0 % 146097
        n100 == r400 \div 36524
        r100 == r400 % 36524
        n4   == r100 \div 1461
        r4   == r100 % 1461
        n1   == r4 \div 365
        r1   == r4 % 365
        y    == n400 * 400 + 1 + n100 * 100 + n4 * 4 + n1
    IN  IF n1 = 4 \/ n100 = 4 THEN Date(y - 1, 12, 31)
        ELSE MonthOf(y, 1, r1 + 1)

\* d + timedelta(days = k), k possibly negative
AddDays(dt, k) == FromOrdinal(ToOrdinal(dt) + k)

\* d1 < d2 on dates
DateLT(a, b) ==
    \/ a.year < b.year
    \/ a.year = b.year /\ a.month < b.month
    \/ a.year = b.year /\ a.month = b.month /\ a.day < b.day

\* date.isoformat(): the text "YYYY-MM-DD" of a date
IsoFormat(dt) == [fmt |-> TRUE, year |-> dt.year, month |-> dt.month, day |-> dt.day]

-----------------------------------------------------------------------------
(* Text of the list files and the list loaders.  A line is the sequence of *)
(* its characters, line end included, as "for line in f" yields it.        *)

\* characters str.strip() removes
Whitespace == {" ", "\t", "\n", "\r"}

RECURSIVE LStrip(_)
LStrip(s) == IF s # <<>> /\ Head(s) \in Whitespace THEN LStrip(Tail(s)) ELSE s

RECURSIVE RStrip(_)
RStrip(s) ==
    IF s # <<>> /\ s[Len(s)] \in Whitespace THEN RStrip(SubSeq(s, 1, Len(s) - 1))
    ELSE s

\* line.strip()
Strip(s) == RStrip(LStrip(s))

\* v.startswith(c)
StartsWith(v, c) == v # <<>> /\ Head(v) = c

RECURSIVE ReadItems(_)
\* the first loop of a loader: the stripped lines that are no blank and no comment
ReadItems(ls) ==
    IF ls = <<>> THEN <<>>
    ELSE LET v == Strip(Head(ls))
         IN  IF v = <<>> \/ StartsWith(v, "#") THEN ReadItems(Tail(ls))
             ELSE <<v>> \o ReadItems(Tail(ls))

RECURSIVE Dedup(_, _)
\* the second loop of a loader: the items not in seen, each appended once
Dedup(items, seen) ==
    IF items = <<>> THEN <<>>
    ELSE IF Head(items) \in seen THEN Dedup(Tail(items), seen)
    ELSE <<Head(items)>> \o Dedup(Tail(items), seen \cup {Head(items)})

\* read_list that returns the items without the second loop
read_list_NoDedup(ls) == ReadItems(ls)

\* keyword_performance.py
read_list(ls) == Dedup(ReadItems(ls), {})

\* page_performance_comparison.py
read_url_list(ls) == Dedup(ReadItems(ls), {})

\* page_indexing.py
read_urls(ls) == Dedup(ReadItems(ls), {})

\* the lines of a file whose lines have these bodies; the last line ends with a
\* line end only if the file does
TextLines(bodies, eof_newline) ==
    [k \in 1..Len(bodies) |->
        IF k < Len(bodies) \/ eof_newline THEN bodies[k] \o <<"\n">> ELSE bodies[k]]

-----------------------------------------------------------------------------
(* Inputs the scripts are run on *)

Modes == {"keyword", "comparison", "inspection"}

\* Text that is not of the shape YYYY-MM-DD
BadFormat == [fmt |-> FALSE, year |-> 0, month |-> 0, day |-> 0]
\* Text of the right shape that names no calendar day
BadDay == [fmt |-> TRUE, year |-> 2026, month |-> 2, day |-> 30]
\* No date is read (page_indexing.py)
NoDate == [fmt |-> FALSE, year |-> 0, month |-> 0, day |-> 0]

Iso(y, m, d) == [fmt |-> TRUE, year |-> y, month |-> m, day |-> d]

\* date.today() in comparison mode, and in the scripts that only name the
\* output directory after it
TodaySamples == {Date(2026, 3, 31), Date(2025, 5, 15)}
AnyToday == Date(2026, 3, 31)

\* <<start, end>> as typed in keyword mode
KwPeriodSamples ==
    {<<BadFormat, Iso(2026, 1, 31)>>,
     <<Iso(2026, 1, 1), BadFormat>>,
     <<Iso(2026, 1, 1), Iso(2026, 1, 31)>>,
     <<Iso(2026, 1, 31), Iso(2026, 1, 1)>>}

\* <<start, end>> as typed in comparison mode
CmpPeriodSamples ==
    {<<BadFormat, Iso(2026, 1, 31)>>,
     <<Iso(2026, 1, 1), BadDay>>,
     <<Iso(2026, 1, 31), Iso(2025, 12, 31)>>,   \* end before start
     <<Iso(2023, 6, 1), Iso(2023, 6, 30)>>,     \* beyond the 16-month window
     <<Iso(2024, 3, 1), Iso(2024, 3, 31)>>,     \* previous period ends on a leap day
     <<Iso(2024, 12, 20), Iso(2025, 1, 31)>>,   \* previous period may fall out
     <<Iso(2025, 12, 31), Iso(2026, 1, 31)>>,
     <<Iso(2026, 3, 1), Iso(2026, 3, 1)>>}

MatchTypeSamples == {"equals", "contains", "regex"}

SiteUrl == "sc-domain:example.com"

\* Keywords / urls of the list files, in file order
Pool == <<<<"b">>, <<"a">>, <<"d">>, <<"c">>, <<"e">>>>

\* A list file of n targets: a comment, a blank line, the targets (indented),
\* the first target again
ListFile(n) ==
    TextLines(<<<<"#", " ", "x">>, <<>>>>
                \o [k \in 1..n |-> <<" ">> \o Pool[k]]
                \o (IF n = 0 THEN <<>> ELSE <<Pool[1]>>), n = 0)

ListFiles == {ListFile(n) : n \in 0..MaxTargets}

\* One row of a searchanalytics.query response
ApiRow(c, im, pos) ==
    [clicks |-> Int2Rat(c), impressions |-> Int2Rat(im),
     ctr |-> IF im = 0 THEN Zero ELSE Rat(c, im), position |-> pos]

KwRowListSamples ==
    {<<>>,
     <<ApiRow(10, 100, Int2Rat(5)), ApiRow(5, 50, Int2Rat(2))>>,
     <<ApiRow(1, 3, Rat(7, 2))>>,
     <<ApiRow(1, 3, Rat(7, 2)), ApiRow(5, 50, Int2Rat(2))>>,
     <<ApiRow(0, 0, Int2Rat(1))>>,
     <<ApiRow(0, 0, Int2Rat(1)), ApiRow(0, 0, Int2Rat(9))>>,
     <<ApiRow(10, 100, Int2Rat(5)), ApiRow(5, 50, Int2Rat(2)), ApiRow(1, 3, Rat(7, 2))>>,
     <<ApiRow(2, 7, Rat(5, 4)), ApiRow(0, 1, Rat(61, 10)), ApiRow(0, 0, Int2Rat(1))>>}

\* "rows" of a response in keyword mode (rowLimit 25000: any number of rows)
KwRowLists == {rs \in KwRowListSamples : Len(rs) <= MaxRows}

\* "rows" of a response in comparison mode (rowLimit 1: at most one row)
CmpRowLists ==
    {<<>>,
     <<ApiRow(150, 1500, Rat(3456, 1000))>>,
     <<ApiRow(100, 1000, Rat(20, 3))>>,
     <<ApiRow(50, 75, Int2Rat(1))>>}

\* indexStatusResult of a urlInspection response; a missing key is ""
IndexResult(v, cov, ix, rb, pf, cr, lc, gc, uc, refs) ==
    [verdict |-> v, coverageState |-> cov, indexingState |-> ix,
     robotsTxtState |-> rb, pageFetchState |-> pf, crawledAs |-> cr,
     lastCrawlTime |-> lc, googleCanonical |-> gc, userCanonical |-> uc,
     referringUrls |-> refs]

IndexSamples ==
    {IndexResult("PASS", "Submitted and indexed", "INDEXING_ALLOWED", "ALLOWED",
                 "SUCCESSFUL", "MOBILE", "2026-01-02T03:04:05Z", "g", "u",
                 <<"r1", "r2">>),
     IndexResult("", "", "", "", "", "", "", "", "", <<>>)}

\* HTTP statuses of a failed call: rate limit, server errors, permission
TransientStatuses == {429, 500, 503}
PermanentStatuses == {403}

\* Outcome of one service call
Ok(data) == [kind |-> "ok", status |-> 200, data |-> data]
HttpError(status) == [kind |-> "http", status |-> status, data |-> <<>>]
OtherError == [kind |-> "exc", status |-> 0, data |-> <<>>]

\* The metrics scripts never read the status: one of each class stands for all
MetricsFailures == {HttpError(429), HttpError(403), OtherError}
IdxFailures ==
    {HttpError(s) : s \in TransientStatuses \cup PermanentStatuses} \cup {OtherError}

KwOutcomes == {Ok(r) : r \in KwRowLists} \cup MetricsFailures
CmpOutcomes == {Ok(r) : r \in CmpRowLists} \cup MetricsFailures
IdxOutcomes == {Ok(r) : r \in IndexSamples} \cup IdxFailures

-----------------------------------------------------------------------------
(* Observable events *)

Event(ev, idx, per, out, dur) ==
    [ev |-> ev, idx |-> idx, per |-> per, out |-> out, dur |-> dur]

NoOut == [kind |-> "", status |-> 0, data |-> <<>>]
FetchEv(idx, per, out) == Event("fetch", idx, per, out, Zero)
RowEv(idx) == Event("row", idx, "", NoOut, Zero)
BackoffEv(idx, dur) == Event("backoff", idx, "", NoOut, dur)
PaceEv(idx, dur) == Event("pace", idx, "", NoOut, dur)
CheckEv == Event("check", 0, "", NoOut, Zero)
ProgressEv(idx) == Event("progress", idx, "", NoOut, Zero)

ProgressEvery == 25

\* print(f"Processed {i}/{len(urls)}...") every 25 items
Progress(idx) == IF idx % ProgressEvery = 0 THEN <<ProgressEv(idx)>> ELSE <<>>

\* No period computed (yet)
NoDay == Date(0, 0, 0)
NoPeriod ==
    [cur_start |-> NoDay, cur_end |-> NoDay, prev_start |-> NoDay,
     prev_end |-> NoDay, days_inclusive |-> 0]

\* No row computed (yet)
NoCalc == [set |-> FALSE]

InitRun ==
    /\ pc = "start"
    /\ err = ""
    /\ targets = <<>>
    /\ period = NoPeriod
    /\ i = 0
    /\ resp = <<>>
    /\ calc = NoCalc
    /\ rows = <<>>
    /\ trace = <<>>

Init ==
    /\ mode \in Modes
    /\ today \in (IF mode = "comparison" THEN TodaySamples ELSE {AnyToday})
    /\ \E p \in (CASE mode = "keyword" -> KwPeriodSamples
                   [] mode = "comparison" -> CmpPeriodSamples
                   [] OTHER -> {<<NoDate, NoDate>>}) :
         start_s = p[1] /\ end_s = p[2]
    /\ match_type \in (IF mode = "keyword" THEN MatchTypeSamples ELSE {""})
    /\ lines \in ListFiles
    /\ InitRun

\* The run ends before the loop with an uncaught exception or an exit
Abort(why) ==
    /\ pc' = "aborted"
    /\ err' = why
    /\ UNCHANGED <<i, resp, calc, rows>>

\* The loop begins with the first target
EnterLoop ==
    /\ pc' = "fetch"
    /\ err' = ""
    /\ i' = 1
    /\ UNCHANGED <<resp, calc, rows>>

\* The list loader returned: the run ends if the list is empty
Loaded(list) ==
    /\ targets' = list
    /\ IF list = <<>> THEN Abort("SystemExit: empty list") ELSE EnterLoop

\* After target i: the next target, or "Done."
NextTarget == IF i < Len(targets) THEN "fetch" ELSE "done"

-----------------------------------------------------------------------------
(* keyword_performance.py *)

\* prompt_date: TRUE when it raises ValueError
prompt_date_raises(s) == ~s.fmt

RECURSIVE SumClicks(_)
SumClicks(rs) ==
    IF rs = <<>> THEN Zero ELSE RatAdd(Head(rs).clicks, SumClicks(Tail(rs)))

RECURSIVE SumImpressions(_)
SumImpressions(rs) ==
    IF rs = <<>> THEN Zero ELSE RatAdd(Head(rs).impressions, SumImpressions(Tail(rs)))

RECURSIVE SumWeightedPos(_)
SumWeightedPos(rs) ==
    IF rs = <<>> THEN Zero
    ELSE RatAdd(RatMul(Head(rs).position, Head(rs).impressions),
                SumWeightedPos(Tail(rs)))

RECURSIVE SumPos(_)
SumPos(rs) == IF rs = <<>> THEN Zero ELSE RatAdd(Head(rs).position, SumPos(Tail(rs)))

\* KwCalc with the position as the plain mean of the rows' positions
KwCalc_PlainMean(rs) ==
    LET total_clicks == SumClicks(rs)
        total_impr   == SumImpressions(rs)
    IN  [set |-> TRUE,
         total_clicks |-> total_clicks,
         total_impr |-> total_impr,
         weighted_pos |-> SumPos(rs),
         ctr |-> IF RatLT(Zero, total_impr) THEN RatDiv(total_clicks, total_impr)
                 ELSE Zero,
         avg_pos |-> IF RatLT(Zero, total_impr)
                     THEN RatDiv(SumPos(rs), Int2Rat(Len(rs))) ELSE Empty]

\* total_clicks, total_impr, weighted_pos, ctr, avg_pos of a non-empty response
KwCalc(rs) ==
    LET total_clicks == SumClicks(rs)
        total_impr   == SumImpressions(rs)
        weighted_pos == SumWeightedPos(rs)
    IN  [set |-> TRUE,
         total_clicks |-> total_clicks,
         total_impr |-> total_impr,
         weighted_pos |-> weighted_pos,
         ctr |-> IF RatLT(Zero, total_impr) THEN RatDiv(total_clicks, total_impr)
                 ELSE Zero,
         avg_pos |-> IF RatLT(Zero, total_impr) THEN RatDiv(weighted_pos, total_impr)
                     ELSE Empty]

KwRow(kw, clicks, impressions, ctr, position) ==
    [keyword |-> kw, start_date |-> start_s, end_date |-> end_s,
     match_type |-> match_type, clicks |-> clicks, impressions |-> impressions,
     ctr |-> ctr, position |-> position]

\* KwZeroRow with the position written as 0
KwZeroRow_ZeroPosition(kw) == KwRow(kw, Zero, Zero, Zero, Zero)

\* the row written when the response has no rows
KwZeroRow(kw) == KwRow(kw, Zero, Zero, Zero, Empty)

\* the row written from the totals of a response with rows
KwAggRow(kw, c) ==
    KwRow(kw, IntRound(c.total_clicks), IntRound(c.total_impr), Round(c.ctr, 4),
          IF c.avg_pos # Empty THEN Round(c.avg_pos, 2) ELSE Empty)

\* KwErrorRow with the counts written as 0
KwErrorRow_Zeros(kw) == KwRow(kw, Zero, Zero, Empty, Empty)

\* the row written by the HttpError handler
KwErrorRow(kw) == KwRow(kw, Empty, Empty, Empty, Empty)

\* the row of one keyword, from the outcome of its query
KwRowFor(kw, out) ==
    IF out.kind = "http" THEN KwErrorRow(kw)
    ELSE IF out.data = <<>> THEN KwZeroRow(kw)
    ELSE KwAggRow(kw, KwCalc(out.data))

\* TRUE when the keyword script rejects the typed date range
KwDatesRejected == prompt_date_raises(start_s) \/ prompt_date_raises(end_s)

\* main() up to the loop: prompts, match type check, keyword list
KwStart ==
    /\ mode = "keyword" /\ pc = "start"
    /\ IF KwDatesRejected THEN Abort("ValueError") /\ UNCHANGED targets
       ELSE IF match_type \notin {"equals", "contains"}
       THEN Abort("ValueError") /\ UNCHANGED targets
       ELSE Loaded(read_list(lines))
    /\ UNCHANGED <<mode, today, start_s, end_s, match_type, lines, period, trace>>

\* service.searchanalytics().query(...).execute() for keyword i
KwFetch ==
    /\ mode = "keyword" /\ pc = "fetch"
    /\ \E out \in KwOutcomes :
         /\ resp' = <<out>>
         /\ trace' = Append(trace, FetchEv(i, "single", out))
         /\ pc' = IF out.kind = "exc" THEN "crashed" ELSE "emit"
         /\ err' = IF out.kind = "exc" THEN "Exception" ELSE err
    /\ UNCHANGED <<mode, today, start_s, end_s, match_type, lines, targets, period, i,
                   calc, rows>>

\* KwEmit with an except block that forgets to write the row
KwEmit_NoErrorRow ==
    /\ mode = "keyword" /\ pc = "emit"
    /\ rows' = IF resp[1].kind = "http" THEN rows
               ELSE Append(rows, KwRowFor(targets[i], resp[1]))
    /\ calc' = IF resp[1].kind = "ok" /\ resp[1].data # <<>>
               THEN KwCalc(resp[1].data) ELSE calc
    /\ trace' = IF resp[1].kind = "http" THEN trace ELSE Append(trace, RowEv(i))
    /\ resp' = <<>>
    /\ pc' = NextTarget
    /\ i' = i + 1
    /\ UNCHANGED <<mode, err, today, start_s, end_s, match_type, lines, targets, period>>

\* writer.writerow(...) of keyword i: zero row, aggregated row or error row
KwEmit ==
    /\ mode = "keyword" /\ pc = "emit"
    /\ rows' = Append(rows, KwRowFor(targets[i], resp[1]))
    /\ calc' = IF resp[1].kind = "ok" /\ resp[1].data # <<>>
               THEN KwCalc(resp[1].data) ELSE calc
    /\ trace' = Append(trace, RowEv(i))
    /\ resp' = <<>>
    /\ pc' = NextTarget
    /\ i' = i + 1
    /\ UNCHANGED <<mode, err, today, start_s, end_s, match_type, lines, targets, period>>

-----------------------------------------------------------------------------
(* page_performance_comparison.py *)

RECURSIVE SubtractMonthsLoop(_, _)
\* while m <= 0: m += 12; y -= 1
SubtractMonthsLoop(y, m) ==
    IF m <= 0 THEN SubtractMonthsLoop(y - 1, m + 12) ELSE <<y, m>>

Min(a, b) == IF a < b THEN a ELSE b

\* subtract_months that keeps the day of the month as it is
subtract_months_NoClamp(d, months) ==
    LET ym == SubtractMonthsLoop(d.year, d.month - months)
    IN  Date(ym[1], ym[2], d.day)

subtract_months(d, months) ==
    LET ym == SubtractMonthsLoop(d.year, d.month - months)
        last_day == DaysInMonth(ym[1], ym[2])
    IN  Date(ym[1], ym[2], Min(d.day, last_day))

RetentionMonths == 16

earliest_gsc_date(td) == subtract_months(td, RetentionMonths)

\* enforce_16_month_window that forgets the previous period
enforce_16_month_window_CurOnly(cur_start, prev_start) ==
    DateLT(cur_start, earliest_gsc_date(today))

\* enforce_16_month_window: TRUE when it raises SystemExit(1)
enforce_16_month_window(cur_start, prev_start) ==
    LET earliest == earliest_gsc_date(today)
    IN  DateLT(cur_start, earliest) \/ DateLT(prev_start, earliest)

\* parse_yyyy_mm_dd: TRUE when strptime rejects the text (ValueError)
parse_raises(s) ==
    ~(/\ s.fmt
      /\ s.year >= 1
      /\ s.month \in 1..12
      /\ s.day \in 1..DaysInMonth(s.year, s.month))

\* parse_yyyy_mm_dd: the date of an accepted text
parse_yyyy_mm_dd(s) == Date(s.year, s.month, s.day)

\* compute_previous_period with the previous period one day too long
compute_previous_period_OffByOne(cur_start, cur_end) ==
    IF DateLT(cur_end, cur_start)
    THEN [raises |-> TRUE, prev_start |-> NoDay, prev_end |-> NoDay,
          days_inclusive |-> 0]
    ELSE LET days_inclusive == (ToOrdinal(cur_end) - ToOrdinal(cur_start)) + 1
             prev_end == AddDays(cur_start, -1)
             prev_start == AddDays(prev_end, -days_inclusive)
         IN  [raises |-> FALSE, prev_start |-> prev_start, prev_end |-> prev_end,
              days_inclusive |-> days_inclusive]

\* compute_previous_period; raises is TRUE for ValueError("End date must be >= start date.")
compute_previous_period(cur_start, cur_end) ==
    IF DateLT(cur_end, cur_start)
    THEN [raises |-> TRUE, prev_start |-> NoDay, prev_end |-> NoDay,
          days_inclusive |-> 0]
    ELSE LET days_inclusive == (ToOrdinal(cur_end) - ToOrdinal(cur_start)) + 1
             prev_end == AddDays(cur_start, -1)
             prev_start == AddDays(prev_end, -(days_inclusive - 1))
         IN  [raises |-> FALSE, prev_start |-> prev_start, prev_end |-> prev_end,
              days_inclusive |-> days_inclusive]

\* Python's None
None == <<"None">>

Hundred == <<100, 1>>

\* pct_change that answers 0 for any change from zero
pct_change_ZeroFromZero(current, previous) ==
    IF previous = Zero THEN Zero
    ELSE RatMul(RatDiv(RatSub(current, previous), previous), Hundred)

pct_change(current, previous) ==
    IF previous = Zero THEN (IF current = Zero THEN Zero ELSE None)
    ELSE RatMul(RatDiv(RatSub(current, previous), previous), Hundred)

\* fetch_page_metrics after the query returned: the metrics of the response
fetch_page_metrics(rs) ==
    IF rs = <<>>
    THEN [clicks |-> Zero, impressions |-> Zero, ctr |-> Zero, position |-> Zero]
    ELSE [clicks |-> rs[1].clicks, impressions |-> rs[1].impressions,
          ctr |-> rs[1].ctr, position |-> rs[1].position]

\* the locals of the try block, from the two metrics records
CmpCalc(cur, prev) ==
    [set |-> TRUE,
     cur |-> cur, prev |-> prev,
     clicks_cur |-> cur.clicks, clicks_prev |-> prev.clicks,
     impr_cur |-> cur.impressions, impr_prev |-> prev.impressions,
     clicks_abs |-> RatSub(cur.clicks, prev.clicks),
     impr_abs |-> RatSub(cur.impressions, prev.impressions),
     clicks_pct |-> pct_change(cur.clicks, prev.clicks),
     impr_pct |-> pct_change(cur.impressions, prev.impressions)]

CmpRowBase(page_url) ==
    [page_url |-> page_url, site_url |-> SiteUrl,
     current_start |-> start_s, current_end |-> end_s,
     previous_start |-> IsoFormat(period.prev_start),
     previous_end |-> IsoFormat(period.prev_end)]

\* CmpOkRow with an absolute change left empty wherever the percent change is
CmpOkRow_AbsLikePct(page_url, c) ==
    LET metrics ==
          [clicks_current |-> IntRound(c.clicks_cur),
           clicks_previous |-> IntRound(c.clicks_prev),
           clicks_change_abs |-> IF c.clicks_pct = None THEN Empty
                                 ELSE IntRound(c.clicks_abs),
           clicks_change_pct |-> IF c.clicks_pct = None THEN Empty
                                 ELSE Round(c.clicks_pct, 2),
           impressions_current |-> IntRound(c.impr_cur),
           impressions_previous |-> IntRound(c.impr_prev),
           impressions_change_abs |-> IF c.impr_pct = None THEN Empty
                                      ELSE IntRound(c.impr_abs),
           impressions_change_pct |-> IF c.impr_pct = None THEN Empty
                                      ELSE Round(c.impr_pct, 2),
           ctr_current |-> Round(c.cur.ctr, 6),
           ctr_previous |-> Round(c.prev.ctr, 6),
           position_current |-> Round(c.cur.position, 2),
           position_previous |-> Round(c.prev.position, 2)]
    IN  CmpRowBase(page_url) @@ metrics

\* the row written from two successful fetches
CmpOkRow(page_url, c) ==
    LET metrics ==
          [clicks_current |-> IntRound(c.clicks_cur),
           clicks_previous |-> IntRound(c.clicks_prev),
           clicks_change_abs |-> IntRound(c.clicks_abs),
           clicks_change_pct |-> IF c.clicks_pct = None THEN Empty
                                 ELSE Round(c.clicks_pct, 2),
           impressions_current |-> IntRound(c.impr_cur),
           impressions_previous |-> IntRound(c.impr_prev),
           impressions_change_abs |-> IntRound(c.impr_abs),
           impressions_change_pct |-> IF c.impr_pct = None THEN Empty
                                      ELSE Round(c.impr_pct, 2),
           ctr_current |-> Round(c.cur.ctr, 6),
           ctr_previous |-> Round(c.prev.ctr, 6),
           position_current |-> Round(c.cur.position, 2),
           position_previous |-> Round(c.prev.position, 2)]
    IN  CmpRowBase(page_url) @@ metrics

\* the row written by the HttpError handler
CmpErrorRow(page_url) ==
    LET metrics ==
          [clicks_current |-> Empty, clicks_previous |-> Empty,
           clicks_change_abs |-> Empty, clicks_change_pct |-> Empty,
           impressions_current |-> Empty, impressions_previous |-> Empty,
           impressions_change_abs |-> Empty, impressions_change_pct |-> Empty,
           ctr_current |-> Empty, ctr_previous |-> Empty,
           position_current |-> Empty, position_previous |-> Empty]
    IN  CmpRowBase(page_url) @@ metrics

\* both fetches of the current page returned
BothOk(rs) == Len(rs) = 2 /\ rs[1].kind = "ok" /\ rs[2].kind = "ok"

\* the row of one page, from the outcomes of its fetches
CmpRowFor(page_url, rs) ==
    IF BothOk(rs)
    THEN CmpOkRow(page_url, CmpCalc(fetch_page_metrics(rs[1].data),
                                    fetch_page_metrics(rs[2].data)))
    ELSE CmpErrorRow(page_url)

\* main() up to the loop: parse the dates, previous period, window guard, url list
CmpStart ==
    /\ mode = "comparison" /\ pc = "start"
    /\ IF parse_raises(start_s) \/ parse_raises(end_s)
       THEN Abort("ValueError") /\ UNCHANGED <<targets, period, trace>>
       ELSE LET cur_start == parse_yyyy_mm_dd(start_s)
                cur_end   == parse_yyyy_mm_dd(end_s)
                prev      == compute_previous_period(cur_start, cur_end)
            IN  IF prev.raises
                THEN Abort("ValueError") /\ UNCHANGED <<targets, period, trace>>
                ELSE /\ period' = [cur_start |-> cur_start, cur_end |-> cur_end,
                                   prev_start |-> prev.prev_start,
                                   prev_end |-> prev.prev_end,
                                   days_inclusive |-> prev.days_inclusive]
                     /\ trace' = Append(trace, CheckEv)
                     /\ IF enforce_16_month_window(cur_start, prev.prev_start)
                        THEN Abort("SystemExit") /\ UNCHANGED targets
                        ELSE Loaded(read_url_list(lines))
    /\ UNCHANGED <<mode, today, start_s, end_s, match_type, lines>>

\* fetch_page_metrics(..., cur_start_s, cur_end_s): the query for the current period
CmpFetchCur ==
    /\ mode = "comparison" /\ pc = "fetch"
    /\ \E out \in CmpOutcomes :
         /\ resp' = <<out>>
         /\ trace' = Append(trace, FetchEv(i, "cur", out))
         /\ pc' = CASE out.kind = "ok" -> "fetch_prev"
                    [] out.kind = "http" -> "emit"
                    [] OTHER -> "crashed"
         /\ err' = IF out.kind = "exc" THEN "Exception" ELSE err
    /\ UNCHANGED <<mode, today, start_s, end_s, match_type, lines, targets, period, i,
                   calc, rows>>

\* fetch_page_metrics(..., prev_start_s, prev_end_s): the query for the previous period
CmpFetchPrev ==
    /\ mode = "comparison" /\ pc = "fetch_prev"
    /\ \E out \in CmpOutcomes :
         /\ resp' = Append(resp, out)
         /\ trace' = Append(trace, FetchEv(i, "prev", out))
         /\ pc' = IF out.kind = "exc" THEN "crashed" ELSE "emit"
         /\ err' = IF out.kind = "exc" THEN "Exception" ELSE err
    /\ UNCHANGED <<mode, today, start_s, end_s, match_type, lines, targets, period, i,
                   calc, rows>>

\* writer.writerow(...) of page i, then the progress line
CmpEmit ==
    /\ mode = "comparison" /\ pc = "emit"
    /\ rows' = Append(rows, CmpRowFor(targets[i], resp))
    /\ calc' = IF BothOk(resp)
               THEN CmpCalc(fetch_page_metrics(resp[1].data),
                            fetch_page_metrics(resp[2].data))
               ELSE calc
    /\ trace' = Append(trace, RowEv(i)) \o Progress(i)
    /\ resp' = <<>>
    /\ pc' = NextTarget
    /\ i' = i + 1
    /\ UNCHANGED <<mode, err, today, start_s, end_s, match_type, lines, targets, period>>

-----------------------------------------------------------------------------
(* page_indexing.py *)

\* delay_seconds = 0.15
delay_seconds == <<3, 20>>

\* min(10, 1 + (i % 5) * 1.5)
Backoff(idx) ==
    RatMin(Int2Rat(10), RatAdd(Int2Rat(1), RatMul(Int2Rat(idx % 5), <<3, 2>>)))

\* IsTransient that takes every HttpError for a transient one
IsTransient_AnyHttp(out) == out.kind = "http"

\* status in (429, 500, 503)
IsTransient(out) == out.kind = "http" /\ out.status \in TransientStatuses

IdxRow(u, verdict, cov, ix, rb, pf, cr, lc, gc, uc, refs, error) ==
    [inspection_url |-> u, site_url |-> SiteUrl, verdict |-> verdict,
     coverage_state |-> cov, indexing_state |-> ix, robots_txt_state |-> rb,
     page_fetch_state |-> pf, crawled_as |-> cr, last_crawl_time |-> lc,
     canonical_google |-> gc, canonical_user |-> uc,
     referring_urls_count |-> refs, error |-> error]

\* row = {k: "" for k in fieldnames} with the two url columns set
IdxBlankRow(u, error) == IdxRow(u, "", "", "", "", "", "", "", "", "", "", error)

\* the row of one url, from the outcome of its inspection
IdxRowFor(u, out) ==
    CASE out.kind = "ok" ->
           LET r == out.data
           IN  IdxRow(u, r.verdict, r.coverageState, r.indexingState,
                      r.robotsTxtState, r.pageFetchState, r.crawledAs,
                      r.lastCrawlTime, r.googleCanonical, r.userCanonical,
                      ToString(Len(r.referringUrls)), "")
      [] out.kind = "http" -> IdxBlankRow(u, "HttpError")
      [] OTHER -> IdxBlankRow(u, "Error")

\* main() up to the loop: the url list
IdxStart ==
    /\ mode = "inspection" /\ pc = "start"
    /\ Loaded(read_urls(lines))
    /\ UNCHANGED <<mode, today, start_s, end_s, match_type, lines, period, trace>>

\* inspect_url(...) for url i; a transient HttpError goes on to the backoff
IdxFetch ==
    /\ mode = "inspection" /\ pc = "fetch"
    /\ \E out \in IdxOutcomes :
         /\ resp' = <<out>>
         /\ trace' = Append(trace, FetchEv(i, "single", out))
         /\ pc' = IF IsTransient(out) THEN "backoff" ELSE "emit"
    /\ UNCHANGED <<mode, err, today, start_s, end_s, match_type, lines, targets, period,
                   i, calc, rows>>

\* time.sleep(backoff) in the HttpError handler
IdxBackoff ==
    /\ mode = "inspection" /\ pc = "backoff"
    /\ trace' = Append(trace, BackoffEv(i, Backoff(i)))
    /\ pc' = "emit"
    /\ UNCHANGED <<mode, err, today, start_s, end_s, match_type, lines, targets, period,
                   i, resp, calc, rows>>

\* writer.writerow(row), then the progress line
IdxEmit ==
    /\ mode = "inspection" /\ pc = "emit"
    /\ rows' = Append(rows, IdxRowFor(targets[i], resp[1]))
    /\ trace' = Append(trace, RowEv(i)) \o Progress(i)
    /\ resp' = <<>>
    /\ pc' = "pace"
    /\ UNCHANGED <<mode, err, today, start_s, end_s, match_type, lines, targets, period,
                   i, calc>>

\* time.sleep(delay_seconds) closing the iteration
IdxPace ==
    /\ mode = "inspection" /\ pc = "pace"
    /\ trace' = Append(trace, PaceEv(i, delay_seconds))
    /\ pc' = NextTarget
    /\ i' = i + 1
    /\ UNCHANGED <<mode, err, today, start_s, end_s, match_type, lines, targets, period,
                   resp, calc, rows>>

-----------------------------------------------------------------------------
(* The scripts *)

Next ==
    \/ KwStart \/ KwFetch \/ KwEmit
    \/ CmpStart \/ CmpFetchCur \/ CmpFetchPrev \/ CmpEmit
    \/ IdxStart \/ IdxFetch \/ IdxBackoff \/ IdxEmit \/ IdxPace

Spec == Init /\ [][Next]_vars

-----------------------------------------------------------------------------
(* The date-window calculator alone: main() of the comparison script up to   *)
(* the loop, on every pair of days of a window that spans a year end and a   *)
(* leap day                                                                  *)

SweepStart == Date(2023, 12, 20)

SweepDates == {IsoFormat(AddDays(SweepStart, k)) : k \in 0..SweepDays}

InitDates ==
    /\ mode = "comparison"
    /\ today = AnyToday
    /\ start_s \in SweepDates
    /\ end_s \in SweepDates
    /\ match_type = ""
    /\ lines = <<>>
    /\ InitRun

NextDates == CmpStart

SpecDates == InitDates /\ [][NextDates]_vars

-----------------------------------------------------------------------------
(* The list loaders alone: main() of each script up to the loop, on every    *)
(* list file of a few lines                                                  *)

\* what a line holds before its line end
LineBodies ==
    {<<"a">>, <<"b">>, <<>>, <<" ", "a", "\t">>, <<"#", "a">>, <<" ", "#">>,
     <<"a", " ", "#", "b">>}

RECURSIVE SeqsUpTo(_, _)
\* the sequences over S of at most n elements
SeqsUpTo(S, n) ==
    IF n = 0 THEN {<<>>}
    ELSE LET shorter == SeqsUpTo(S, n - 1)
         IN  shorter \cup {Append(q, x) : q \in shorter, x \in S}

\* the files of at most MaxLines lines, with and without a final line end
LineFiles ==
    {TextLines(b, TRUE) : b \in SeqsUpTo(LineBodies, MaxLines)}
    \cup {TextLines(b, FALSE) :
             b \in {q \in SeqsUpTo(LineBodies, MaxLines) :
                       q # <<>> /\ q[Len(q)] # <<>>}}

InitLoad ==
    /\ mode \in Modes
    /\ today = AnyToday
    /\ IF mode = "inspection" THEN start_s = NoDate /\ end_s = NoDate
       ELSE start_s = Iso(2026, 3, 1) /\ end_s = Iso(2026, 3, 1)
    /\ match_type = (IF mode = "keyword" THEN "equals" ELSE "")
    /\ lines \in LineFiles
    /\ InitRun

NextLoad == KwStart \/ CmpStart \/ IdxStart

SpecLoad == InitLoad /\ [][NextLoad]_vars

-----------------------------------------------------------------------------
(* The retention horizon alone: main() of the comparison script up to the    *)
(* loop, for one period and every "today" of a window that spans a year end  *)
(* and the ends of December, January, February and March                     *)

HorizonStart == Date(2025, 12, 20)

HorizonTodays == {AddDays(HorizonStart, k) : k \in 0..HorizonDays}

InitHorizon ==
    /\ mode = "comparison"
    /\ today \in HorizonTodays
    /\ start_s = Iso(2024, 12, 1)
    /\ end_s = Iso(2024, 12, 1)
    /\ match_type = ""
    /\ lines = <<>>
    /\ InitRun

NextHorizon == CmpStart

SpecHorizon == InitHorizon /\ [][NextHorizon]_vars

-----------------------------------------------------------------------------
(* Reading the trace and the rows *)

FetchAt(j, per) ==
    {k \in 1..Len(trace) :
        trace[k].ev = "fetch" /\ trace[k].idx = j /\ trace[k].per = per}
HasFetch(j, per) == FetchAt(j, per) # {}
OutOf(j, per) == trace[CHOOSE k \in FetchAt(j, per) : TRUE].out
EventsOf(kind) == {k \in 1..Len(trace) : trace[k].ev = kind}

\* the first period queried for a target
FirstPer == IF mode = "comparison" THEN "cur" ELSE "single"

\* some query of target j failed with an HttpError
Failed(j) ==
    \E k \in 1..Len(trace) :
        trace[k].ev = "fetch" /\ trace[k].idx = j /\ trace[k].out.kind = "http"

RowTarget(r) ==
    CASE mode = "keyword" -> r.keyword
      [] mode = "comparison" -> r.page_url
      [] OTHER -> r.inspection_url

KwMetricFields == {"clicks", "impressions", "ctr", "position"}
CmpMetricFields ==
    {"clicks_current", "clicks_previous", "clicks_change_abs", "clicks_change_pct",
     "impressions_current", "impressions_previous", "impressions_change_abs",
     "impressions_change_pct", "ctr_current", "ctr_previous", "position_current",
     "position_previous"}
IdxResultFields ==
    {"verdict", "coverage_state", "indexing_state", "robots_txt_state",
     "page_fetch_state", "crawled_as", "last_crawl_time", "canonical_google",
     "canonical_user", "referring_urls_count"}

\* every metric field of the row is the empty string
MetricsEmpty(r) ==
    CASE mode = "keyword" -> \A f \in KwMetricFields : r[f] = Empty
      [] mode = "comparison" -> \A f \in CmpMetricFields : r[f] = Empty
      [] OTHER -> \A f \in IdxResultFields : r[f] = ""

HasErrorMarker(r) == "error" \in DOMAIN r /\ r.error # ""

LoopPcs == {"fetch", "fetch_prev", "backoff", "emit", "pace"}

\* the script is at a step of the loop of its own mode, which it can take
CanStep ==
    \/ mode = "keyword" /\ (pc = "fetch" \/ (pc = "emit" /\ Len(resp) = 1))
    \/ mode = "comparison"
         /\ (pc = "fetch" \/ (pc = "fetch_prev" /\ Len(resp) = 1)
             \/ (pc = "emit" /\ Len(resp) \in 1..2))
    \/ mode = "inspection"
         /\ (pc \in {"fetch", "pace"} \/ (pc \in {"backoff", "emit"} /\ Len(resp) = 1))

-----------------------------------------------------------------------------
(* C1 *)

\* C1: in each of the three loops the rows written so far are the rows of the
\* first targets, one per target and in list order; a run that says "Done."
\* has written exactly one row per target; a failed query (HttpError of any
\* status) never ends the run: inside the loop the script can always take its
\* next step, and it stops early only on an exception that is no service error.
C1_OneRowPerTarget ==
    /\ Len(rows) <= Len(targets)
    /\ \A j \in 1..Len(rows) : RowTarget(rows[j]) = targets[j]
    /\ Cardinality(EventsOf("row")) = Len(rows)
    /\ pc \in {"fetch", "fetch_prev", "backoff", "emit"} =>
          Len(rows) = i - 1 /\ i <= Len(targets)
    /\ pc = "pace" => Len(rows) = i
    /\ pc = "done" => Len(rows) = Len(targets) /\ targets # <<>>
    /\ pc \in LoopPcs => CanStep
    /\ pc = "crashed" => trace[Len(trace)].ev = "fetch"
                         /\ trace[Len(trace)].out.kind = "exc"
    /\ pc = "aborted" => EventsOf("fetch") = {} /\ rows = <<>>

\* a finished batch whose first target failed and whose last target returned data
C1_Witness ==
    /\ pc = "done"
    /\ Len(targets) >= 2
    /\ Len(rows) = Len(targets)
    /\ Failed(1)
    /\ HasFetch(Len(targets), FirstPer)
    /\ OutOf(Len(targets), FirstPer).kind = "ok"
    /\ OutOf(Len(targets), FirstPer).data # <<>>

-----------------------------------------------------------------------------
(* C2 *)

\* the calendar day after d, by the calendar alone
NextDay(d) ==
    IF d.day < DaysInMonth(d.year, d.month) THEN Date(d.year, d.month, d.day + 1)
    ELSE IF d.month < 12 THEN Date(d.year, d.month + 1, 1)
    ELSE Date(d.year + 1, 1, 1)

RECURSIVE DaysFromTo(_, _)
\* the number of days of the inclusive range a..b, a <= b, counted day by day
DaysFromTo(a, b) == IF a = b THEN 1 ELSE 1 + DaysFromTo(NextDay(a), b)

IsCalendarDay(d) ==
    d.month \in 1..12 /\ d.day \in 1..DaysInMonth(d.year, d.month)

\* C2: once main() is past its start-up on a current period with
\* cur_start <= cur_end, compute_previous_period has returned (it did not
\* raise) days = cur_end - cur_start + 1 counted inclusively, a prev_end whose
\* next calendar day is cur_start, and a prev_start from which the previous
\* period counts exactly days days.
C2_PreviousPeriod ==
    (mode = "comparison" /\ pc # "start"
       /\ ~parse_raises(start_s) /\ ~parse_raises(end_s)
       /\ ~DateLT(parse_yyyy_mm_dd(end_s), parse_yyyy_mm_dd(start_s))) =>
        /\ period.cur_start = parse_yyyy_mm_dd(start_s)
        /\ period.cur_end = parse_yyyy_mm_dd(end_s)
        /\ IsCalendarDay(period.prev_start) /\ IsCalendarDay(period.prev_end)
        /\ period.days_inclusive = DaysFromTo(period.cur_start, period.cur_end)
        /\ NextDay(period.prev_end) = period.cur_start
        /\ ~DateLT(period.prev_end, period.prev_start)
        /\ DaysFromTo(period.prev_start, period.prev_end) = period.days_inclusive

\* a current period of several weeks whose previous period ends on a leap day
C2_Witness ==
    /\ pc # "start"
    /\ period.cur_start = Date(2024, 3, 1)
    /\ period.days_inclusive > 1
    /\ period.prev_end = Date(2024, 2, 29)
    /\ period.prev_start.month = 2

-----------------------------------------------------------------------------
(* C3 *)

\* r is what pct_change must return for current c and previous p
IsPctChange(r, c, p) ==
    IF p = Zero
    THEN (IF c = Zero THEN r = Zero ELSE r = None)
    ELSE /\ r # None
         /\ Len(r) = 2
         /\ r[2] > 0
         \* r = (c - p) / p * 100, cross-multiplied
         /\ r[1] * (c[2] * p[1]) = r[2] * (c[1] * p[2] - p[1] * c[2]) * 100

\* C3: the percent changes the comparison loop holds after a computed row are
\* those of pct_change: 0 for 0 over 0, None (never 0) for a non-zero current
\* over a zero previous, otherwise exactly (current - previous) / previous * 100;
\* in particular 150 over 100 gives 50 and 50 over 100 gives -50.
C3_PctChange ==
    (mode = "comparison" /\ calc.set) =>
        /\ IsPctChange(calc.clicks_pct, calc.clicks_cur, calc.clicks_prev)
        /\ IsPctChange(calc.impr_pct, calc.impr_cur, calc.impr_prev)
        /\ (calc.clicks_cur = Int2Rat(150) /\ calc.clicks_prev = Int2Rat(100)) =>
               calc.clicks_pct = Int2Rat(50)
        /\ (calc.clicks_cur = Int2Rat(50) /\ calc.clicks_prev = Int2Rat(100)) =>
               calc.clicks_pct = Int2Rat(-50)

\* a first row with 150 clicks over 100, then a row with clicks over none
C3_Witness ==
    /\ mode = "comparison" /\ calc.set
    /\ Len(rows) = 2
    /\ rows[1].clicks_current = Int2Rat(150)
    /\ rows[1].clicks_previous = Int2Rat(100)
    /\ rows[1].clicks_change_pct = Int2Rat(50)
    /\ calc.clicks_prev = Zero /\ calc.clicks_cur # Zero /\ calc.clicks_pct = None

-----------------------------------------------------------------------------
(* C4 *)

\* x is y rounded to ndigits decimals: a multiple of 10^-ndigits within half a unit
IsRounded(x, y, ndigits) ==
    LET s == Pow10(ndigits)
    IN  /\ Len(x) = 2
        /\ s % x[2] = 0
        /\ Abs(2 * s * (x[1] * y[2] - y[1] * x[2])) <= x[2] * y[2]

\* keyword rows written from a response with rows and impressions
KwAggregated ==
    {j \in 1..Len(rows) :
        /\ OutOf(j, "single").kind = "ok"
        /\ OutOf(j, "single").data # <<>>
        /\ SumImpressions(OutOf(j, "single").data) # Zero}

\* C4 (as stated): every keyword row written from a response with rows has the
\* summed clicks and impressions, position equal to
\* sum(position * impressions) / sum(impressions) and ctr equal to
\* total clicks / total impressions.
C4_Original ==
    mode = "keyword" =>
        \A j \in KwAggregated :
            LET rs == OutOf(j, "single").data
            IN  /\ rows[j].clicks = SumClicks(rs)
                /\ rows[j].impressions = SumImpressions(rs)
                /\ rows[j].position = RatDiv(SumWeightedPos(rs), SumImpressions(rs))
                /\ rows[j].ctr = RatDiv(SumClicks(rs), SumImpressions(rs))

\* C4 (amended): every keyword row written from a response with rows whose
\* impressions sum to more than 0 has the summed clicks and impressions (as
\* integers), position equal to sum(position * impressions) / sum(impressions) rounded to
\* 2 decimals and ctr equal to total clicks / total impressions rounded to 4
\* decimals; rows {10, 100, 5} and {5, 50, 2} give 15, 150, 4.0 and 0.1.
C4_Aggregation ==
    mode = "keyword" =>
        \A j \in KwAggregated :
            LET rs == OutOf(j, "single").data
                example == <<ApiRow(10, 100, Int2Rat(5)), ApiRow(5, 50, Int2Rat(2))>>
            IN  /\ IsRounded(rows[j].clicks, SumClicks(rs), 0)
                /\ IsRounded(rows[j].impressions, SumImpressions(rs), 0)
                /\ IsRounded(rows[j].position,
                             RatDiv(SumWeightedPos(rs), SumImpressions(rs)), 2)
                /\ IsRounded(rows[j].ctr,
                             RatDiv(SumClicks(rs), SumImpressions(rs)), 4)
                /\ rs = example =>
                      /\ rows[j].clicks = Int2Rat(15)
                      /\ rows[j].impressions = Int2Rat(150)
                      /\ rows[j].position = Int2Rat(4)
                      /\ rows[j].ctr = Rat(1, 10)

\* the example rows, then rows whose position and ctr do not end after 2 and 4 decimals
C4_Witness ==
    /\ mode = "keyword"
    /\ KwAggregated = {1, 2}
    /\ rows[1].position = Int2Rat(4) /\ rows[1].ctr = Rat(1, 10)
    /\ rows[2].position # RatDiv(SumWeightedPos(OutOf(2, "single").data),
                                 SumImpressions(OutOf(2, "single").data))
    /\ rows[2].ctr # RatDiv(SumClicks(OutOf(2, "single").data),
                            SumImpressions(OutOf(2, "single").data))

-----------------------------------------------------------------------------
(* C5 *)

\* C5: a keyword row written from a successful response without rows has
\* clicks 0, impressions 0, ctr 0 and an empty position (not 0); a row written
\* from rows whose impressions sum to 0 has an empty position too.
C5_KwZeroRows ==
    mode = "keyword" =>
        \A j \in 1..Len(rows) :
            LET out == OutOf(j, "single")
            IN  /\ (out.kind = "ok" /\ out.data = <<>>) =>
                      /\ rows[j].clicks = Zero
                      /\ rows[j].impressions = Zero
                      /\ rows[j].ctr = Zero
                      /\ rows[j].position = Empty
                /\ (out.kind = "ok" /\ out.data # <<>>
                      /\ SumImpressions(out.data) = Zero) =>
                      rows[j].position = Empty

\* a row from a response without rows, then a row from rows without impressions
C5_Witness ==
    /\ mode = "keyword"
    /\ Len(rows) = 2
    /\ OutOf(1, "single") = Ok(<<>>)
    /\ rows[1].position = Empty /\ rows[1].clicks = Zero
    /\ OutOf(2, "single").kind = "ok"
    /\ OutOf(2, "single").data # <<>>
    /\ SumImpressions(OutOf(2, "single").data) = Zero
    /\ rows[2].position = Empty

-----------------------------------------------------------------------------
(* C6 *)

\* C6: in a comparison row written from two successful fetches, the position
\* of a period whose query returned no rows is empty, never 0.
C6_CmpZeroRowsPositionEmpty ==
    mode = "comparison" =>
        \A j \in 1..Len(rows) :
            (~Failed(j)) =>
                /\ OutOf(j, "cur").data = <<>> => rows[j].position_current = Empty
                /\ OutOf(j, "prev").data = <<>> => rows[j].position_previous = Empty

-----------------------------------------------------------------------------
(* C7 *)

\* the typed period is a period whose previous period the script computes
PeriodComputed ==
    /\ mode = "comparison" /\ pc # "start"
    /\ ~parse_raises(start_s) /\ ~parse_raises(end_s)
    /\ ~DateLT(parse_yyyy_mm_dd(end_s), parse_yyyy_mm_dd(start_s))

\* the current or the previous period starts before today minus 16 months
OutsideWindow ==
    \/ DateLT(period.cur_start, earliest_gsc_date(today))
    \/ DateLT(period.prev_start, earliest_gsc_date(today))

\* C7: in comparison mode a period whose current or previous start precedes
\* the retention horizon ends the run (SystemExit) with no fetch made and no
\* row written; the window check happens at most once in a run, it is the
\* first event of every run that fetches, and none follows a fetch.
C7_RetentionWindow ==
    mode = "comparison" =>
        /\ (PeriodComputed /\ OutsideWindow) =>
              /\ pc = "aborted" /\ err = "SystemExit"
              /\ EventsOf("fetch") = {}
              /\ rows = <<>>
        /\ Cardinality(EventsOf("check")) <= 1
        /\ EventsOf("fetch") # {} => EventsOf("check") = {1}
        /\ PeriodComputed => EventsOf("check") = {1}

\* the current period fits the window and the previous one does not
C7_Witness ==
    /\ PeriodComputed
    /\ ~DateLT(period.cur_start, earliest_gsc_date(today))
    /\ DateLT(period.prev_start, earliest_gsc_date(today))
    /\ pc = "aborted"
    /\ trace = <<CheckEv>>
    /\ read_url_list(lines) # <<>>

-----------------------------------------------------------------------------
(* C8 *)

\* positions in the trace of the events of one kind for target j
EventsFor(kind, j) == {k \in EventsOf(kind) : trace[k].idx = j}

\* a transient failure: rate limited or server unavailable
TransientFetches ==
    {k \in EventsOf("fetch") :
        trace[k].out.kind = "http" /\ trace[k].out.status \in TransientStatuses}

\* C8: in every mode, after a fetch for target j that fails with a transient
\* error, the row of j has empty metric fields and an error marker, the row is
\* followed by a backoff pause, the pause precedes the fetch for target j + 1,
\* and a finished batch has one row per target.
C8_TransientFailure ==
    /\ pc = "done" => Len(rows) = Len(targets)
    /\ \A k \in TransientFetches :
          LET j == trace[k].idx
          IN  /\ j <= Len(rows) =>
                    MetricsEmpty(rows[j]) /\ HasErrorMarker(rows[j])
              /\ \A n \in EventsFor("fetch", j + 1) :
                    \E r \in EventsFor("row", j), b \in EventsFor("backoff", j) :
                        k < r /\ r < b /\ b < n

-----------------------------------------------------------------------------
(* C9 *)

\* the clicks and impressions fields of a row of a metrics mode
CountFields ==
    IF mode = "keyword" THEN {"clicks", "impressions"}
    ELSE {"clicks_current", "clicks_previous", "impressions_current",
          "impressions_previous"}

\* C9: in the metrics modes a row of a target whose fetch raised a service
\* error has every numeric field empty (so no count is 0), a row of a target
\* whose fetches succeeded has no empty count, and its counts are 0 for a
\* period whose query returned no rows.
C9_FailedVersusNoData ==
    mode \in {"keyword", "comparison"} =>
        \A j \in 1..Len(rows) :
            /\ Failed(j) =>
                  /\ MetricsEmpty(rows[j])
                  /\ \A f \in CountFields : rows[j][f] # Zero
            /\ ~Failed(j) =>
                  /\ \A f \in CountFields : rows[j][f] # Empty
                  /\ (OutOf(j, FirstPer).data = <<>>) =>
                        IF mode = "keyword"
                        THEN rows[j].clicks = Zero /\ rows[j].impressions = Zero
                        ELSE rows[j].clicks_current = Zero
                             /\ rows[j].impressions_current = Zero
                  /\ (mode = "comparison" /\ OutOf(j, "prev").data = <<>>) =>
                        rows[j].clicks_previous = Zero
                        /\ rows[j].impressions_previous = Zero

\* a row of a failed fetch next to a row of a fetch without data
C9_Witness ==
    /\ mode \in {"keyword", "comparison"}
    /\ Len(rows) = 2
    /\ Failed(1) /\ MetricsEmpty(rows[1])
    /\ ~Failed(2) /\ OutOf(2, FirstPer).data = <<>>
    /\ \A f \in CountFields : rows[2][f] = Zero

-----------------------------------------------------------------------------
(* C10 *)

\* both typed dates are calendar days and the end is before the start
EndBeforeStart ==
    /\ ~parse_raises(start_s) /\ ~parse_raises(end_s)
    /\ DateLT(parse_yyyy_mm_dd(end_s), parse_yyyy_mm_dd(start_s))

\* C10: in keyword and in comparison mode no fetch is issued and no row is
\* written for a date range whose end precedes its start: the run is rejected
\* before the loop.
C10_EndBeforeStartRejected ==
    (mode \in {"keyword", "comparison"} /\ EndBeforeStart) =>
        /\ EventsOf("fetch") = {}
        /\ rows = <<>>

-----------------------------------------------------------------------------
(* C11 *)

\* the positions of the characters of line l that are no whitespace
Inked(l) == {p \in 1..Len(l) : l[p] \notin Whitespace}

\* line l from its first to its last character that is no whitespace
Stripped(l) ==
    IF Inked(l) = {} THEN <<>>
    ELSE SubSeq(l, CHOOSE p \in Inked(l) : \A q \in Inked(l) : p <= q,
                   CHOOSE p \in Inked(l) : \A q \in Inked(l) : q <= p)

\* the n-th smallest element of a set of numbers
Nth(S, n) == CHOOSE k \in S : Cardinality({j \in S : j < k}) = n - 1

\* the list loader of the running script has returned
ListLoaded ==
    \/ pc \in LoopPcs \cup {"done", "crashed"}
    \/ pc = "aborted" /\ err = "SystemExit: empty list"

\* C11: the list a loader (read_list, read_url_list, read_urls) returns is the
\* whitespace-stripped lines of the file that are not empty and do not start
\* with "#", each value once, at the place of its first occurrence and in file
\* order; it holds no duplicate, no empty string and no comment line; the
\* lines "a", "a", "b", "" load as "a", "b"; a run ends for an empty list
\* exactly when the loader returns none.
C11_ListLoader ==
    ListLoaded =>
        LET st    == [k \in 1..Len(lines) |-> Stripped(lines[k])]
            items == {k \in 1..Len(lines) : st[k] # <<>> /\ st[k][1] # "#"}
            first == {k \in items : \A j \in items : j < k => st[j] # st[k]}
        IN  /\ Len(targets) = Cardinality(first)
            /\ \A n \in 1..Len(targets) : targets[n] = st[Nth(first, n)]
            /\ \A n \in 1..Len(targets) :
                  /\ targets[n] # <<>>
                  /\ targets[n][1] # "#"
                  /\ targets[n][1] \notin Whitespace
                  /\ targets[n][Len(targets[n])] \notin Whitespace
                  /\ \A m \in 1..Len(targets) : targets[m] = targets[n] => m = n
            /\ lines = <<<<"a", "\n">>, <<"a", "\n">>, <<"b", "\n">>, <<"\n">>>> =>
                  targets = <<<<"a">>, <<"b">>>>
            /\ (pc = "aborted") <=> (targets = <<>>)

\* the example file: a repeated line and a blank line, loaded in file order
C11_Witness ==
    /\ pc = "fetch"
    /\ lines = <<<<"a", "\n">>, <<"a", "\n">>, <<"b", "\n">>, <<"\n">>>>
    /\ targets = <<<<"a">>, <<"b">>>>

-----------------------------------------------------------------------------
(* C12 *)

\* a field that holds a number
IsNumber(x) == Len(x) = 2 /\ x[2] > 0

\* the clicks or impressions the service reported for page j in one period
Reported(j, per, metric) ==
    LET data == OutOf(j, per).data
    IN  IF data = <<>> THEN Zero ELSE data[1][metric]

\* comparison rows written from two successful fetches
CmpCompared == {j \in 1..Len(rows) : ~Failed(j)}

\* the current, previous, absolute change and percent change columns of a metric
ChangeColumns ==
    {<<"clicks", "clicks_current", "clicks_previous", "clicks_change_abs",
       "clicks_change_pct">>,
     <<"impressions", "impressions_current", "impressions_previous",
       "impressions_change_abs", "impressions_change_pct">>}

\* C12: in every comparison row written from two successful fetches, the
\* absolute change of clicks and of impressions is a number, equal to the
\* current minus the previous value (of the row and of what the service
\* reported), also when the previous value is 0; the percent change of the
\* same metric is empty exactly when the previous value is 0 and the current
\* one is not, and a number otherwise.
C12_AbsAlwaysPctSometimes ==
    mode = "comparison" =>
        \A j \in CmpCompared : \A f \in ChangeColumns :
            LET cur  == Reported(j, "cur", f[1])
                prev == Reported(j, "prev", f[1])
                r    == rows[j]
            IN  /\ r[f[2]] = cur /\ r[f[3]] = prev
                /\ IsNumber(r[f[4]])
                /\ r[f[4]] = RatSub(r[f[2]], r[f[3]])
                /\ r[f[4]] = RatSub(cur, prev)
                /\ (r[f[5]] = Empty) <=> (prev = Zero /\ cur # Zero)
                /\ r[f[5]] # Empty => IsNumber(r[f[5]])

\* a page that went from no clicks to 150, then a page that went from 100 to 50
C12_Witness ==
    /\ mode = "comparison"
    /\ CmpCompared = {1, 2}
    /\ rows[1].clicks_previous = Zero
    /\ rows[1].clicks_current = Int2Rat(150)
    /\ rows[1].clicks_change_abs = Int2Rat(150)
    /\ rows[1].clicks_change_pct = Empty
    /\ rows[2].clicks_previous = Int2Rat(100)
    /\ rows[2].clicks_current = Int2Rat(50)
    /\ rows[2].clicks_change_abs = Int2Rat(-50)
    /\ rows[2].clicks_change_pct = Int2Rat(-50)

-----------------------------------------------------------------------------
(* C13 *)

\* C13: in every mode, each fetch for target j + 1 is preceded by a pacing
\* wait of the fixed delay that follows the fetch for target j, whatever the
\* outcome of that fetch, and a finished batch has paced after every target.
C13_PacingAfterEveryItem ==
    /\ \A j \in 1..Len(targets) : \A n \in EventsFor("fetch", j + 1) :
          \E k \in EventsFor("fetch", j), p \in EventsFor("pace", j) :
              k < p /\ p < n /\ trace[p].dur = delay_seconds
    /\ pc = "done" => \A j \in 1..Len(targets) : EventsFor("pace", j) # {}

-----------------------------------------------------------------------------
(* C14 *)

\* the fetch for url j failed with HTTP status 429, 500 or 503
FailedTransiently(j) ==
    /\ HasFetch(j, "single")
    /\ OutOf(j, "single").kind = "http"
    /\ OutOf(j, "single").status \in {429, 500, 503}

\* dur is min(10, 1 + (idx mod 5) * 1.5) seconds, which lies between 1 and 10
IsBackoffOf(dur, idx) ==
    /\ IsNumber(dur)
    /\ 2 * dur[1] = Min(20, 2 + 3 * (idx % 5)) * dur[2]
    /\ dur[2] <= dur[1] /\ dur[1] <= 10 * dur[2]

\* C14: in the inspection loop a url is fetched once (no retry) and has at
\* most one backoff pause; a pause for url j follows the fetch for j, precedes
\* the row and the pacing wait of j, and lasts min(10, 1 + (j mod 5) * 1.5)
\* seconds; once the row of j is written, j has a backoff pause if and only if
\* its fetch failed with status 429, 500 or 503 (not after a success, another
\* HTTP status or a non-HTTP error); the schedule stays between 1 and 10
\* seconds for every item index.
C14_BackoffIffTransient ==
    mode = "inspection" =>
        /\ \A j \in 1..Len(targets) :
              /\ Cardinality(EventsFor("fetch", j)) <= 1
              /\ Cardinality(EventsFor("backoff", j)) <= 1
              /\ \A b \in EventsFor("backoff", j) :
                    /\ FailedTransiently(j)
                    /\ \A k \in EventsFor("fetch", j) : k < b
                    /\ \A k \in EventsFor("row", j) \cup EventsFor("pace", j) : b < k
                    /\ IsBackoffOf(trace[b].dur, j)
              /\ EventsFor("row", j) # {} =>
                    (EventsFor("backoff", j) # {} <=> FailedTransiently(j))
        /\ \A idx \in 1..MaxIndex : IsBackoffOf(Backoff(idx), idx)

\* a finished batch: the first url was rate limited and backed off for 2.5
\* seconds, the second was refused for good and only paced
C14_Witness ==
    /\ mode = "inspection" /\ pc = "done"
    /\ Len(targets) >= 2
    /\ OutOf(1, "single") = HttpError(429)
    /\ \E b \in EventsFor("backoff", 1) : trace[b].dur = <<5, 2>>
    /\ OutOf(2, "single") = HttpError(403)
    /\ EventsFor("backoff", 2) = {}
    /\ EventsFor("pace", 1) # {} /\ EventsFor("pace", 2) # {}

-----------------------------------------------------------------------------
(* C15 *)

\* months since year 0 of the month of a date
MonthIndex(d) == d.year * 12 + (d.month - 1)

\* r is a calendar day, months calendar months before the month of d, on the
\* day of d or, if that month is shorter, on its last day
IsMonthsBefore(r, d, months) ==
    /\ IsCalendarDay(r) /\ r.year >= 1
    /\ MonthIndex(r) = MonthIndex(d) - months
    /\ \/ r.day = d.day
       \/ r.day < d.day /\ NextDay(r).day = 1

\* C15: for today and every number of months from 0 on, subtract_months
\* returns a calendar day that many calendar months earlier, on the same day
\* of the month or clamped to the last day of a shorter month (2026-03-31
\* minus 1 month is 2026-02-28); earliest_gsc_date(today) is that day 16 months
\* back, never later than today; and the window check of main() rejects a
\* period exactly when one of its starts is before that day.
C15_SubtractMonths ==
    /\ \A months \in 0..MaxMonths :
          IsMonthsBefore(subtract_months(today, months), today, months)
    /\ today = Date(2026, 3, 31) => subtract_months(today, 1) = Date(2026, 2, 28)
    /\ IsMonthsBefore(earliest_gsc_date(today), today, 16)
    /\ ~DateLT(today, earliest_gsc_date(today))
    /\ PeriodComputed =>
          \A h \in {Date(y, m, d) : y \in (today.year - 2)..(today.year - 1),
                                     m \in 1..12, d \in 1..31} :
              IsMonthsBefore(h, today, 16) =>
                  ((pc = "aborted" /\ err = "SystemExit")
                     <=> (DateLT(period.cur_start, h) \/ DateLT(period.prev_start, h)))

\* on 2026-03-31 the horizon is clamped to 2024-11-30, so a previous period
\* that starts on 2024-11-30 passes the window check
C15_Witness ==
    /\ today = Date(2026, 3, 31)
    /\ subtract_months(today, 1) = Date(2026, 2, 28)
    /\ earliest_gsc_date(today) = Date(2024, 11, 30)
    /\ period.prev_start = Date(2024, 11, 30)
    /\ trace = <<CheckEv>>
    /\ pc = "aborted" /\ err = "SystemExit: empty list"

====
